---- MODULE Spec2Model ----
(***************************************************************************)
(* FP5529 voice-coil-motor actuator driver (is-actuator-fp5529.c).         *)
(*                                                                         *)
(* The driver is modelled as a sequential state machine: one call is in    *)
(* flight at a time.  A call starts from pc = "idle", runs through the     *)
(* program points of its function, ends in pc = "done" with its return     *)
(* value in ret and the bus traffic it issued in bus, and Return takes     *)
(* the machine back to "idle".  Every bus transfer draws its result from   *)
(* BusResults, so any transfer may fail.                                   *)
(***************************************************************************)
EXTENDS Integers, Sequences, FiniteSets, TLC

(***************************************************************************)
(* Register map and driver constants.                                      *)
(***************************************************************************)
REG_CONTROL == 2
REG_VCM_MSB == 3
REG_VCM_LSB == 4
REG_STATUS == 5
REG_ACC_MODE == 6
REG_ACC_TIME == 7
REG_PRESET == 10
REG_LAD_EN == 11

DEF_FP5529_FIRST_POSITION == 100
DEF_FP5529_SECOND_POSITION == 180
DEF_FP5529_FIRST_DELAY == 20
DEF_FP5529_SECOND_DELAY == 10

\* is-actuator-fp5529.h: 10-bit position, settle delay in microseconds.
FP5529_POS_MAX_SIZE == 1023
PWR_ON_DELAY == 5000

EINVAL == 22

\* The dedicated return code of a soft landing that did not reach rest.
HW_SOFTLANDING_FAIL == -200

\* wait_busy polls the status register at most this many times.
BusyPollLimit == 15

\* enum is_actuator_status; GARBAGE stands for every other u32 value.
ACTUATOR_STATUS_NO_BUSY == "NO_BUSY"
ACTUATOR_STATUS_BUSY == "BUSY"
GARBAGE == "GARBAGE"

\* cal_data == NULL is a record with present = FALSE.
NoCal == [present |-> FALSE, control_mode |-> 0, prescale |-> 0, acctime |-> 0]

(***************************************************************************)
(* Bounds of the model.                                                    *)
(***************************************************************************)
\* Length of init_positions[] / init_delays[] in the sysfs record.
MaxInitStep == 2
\* Targets 0 .. FP5529_POS_MAX_SIZE + MaxOver are enumerated by SpecPos.
MaxOver == 3

(***************************************************************************)
(* Fixed-width arithmetic.                                                 *)
(***************************************************************************)
RECURSIVE BitAnd(_, _)
BitAnd(a, b) ==
    IF a = 0 \/ b = 0 THEN 0
    ELSE (IF a % 2 = 1 /\ b % 2 = 1 THEN 1 ELSE 0) + 2 * BitAnd(a \div 2, b \div 2)

RECURSIVE BitOr(_, _)
BitOr(a, b) ==
    IF a = 0 THEN b
    ELSE IF b = 0 THEN a
    ELSE (IF a % 2 = 1 \/ b % 2 = 1 THEN 1 ELSE 0) + 2 * BitOr(a \div 2, b \div 2)

Pow2(n) == IF n = 0 THEN 1 ELSE 2 ^ n
Shl(a, n) == a * Pow2(n)
Shr(a, n) == a \div Pow2(n)
U8(x) == x % 256

\* A u32 is held as its 32-bit two's-complement image: a negative image x
\* stands for the value x + 2^32.  An int stored into a u32 keeps its image;
\* what changes is how it compares.
u32_gt(a, b) ==
    IF a < 0 THEN (b >= 0 \/ a > b) ELSE (b >= 0 /\ a > b)

(***************************************************************************)
(* Bus traffic.  Every transfer is recorded with the result the adapter    *)
(* returned for it; sleeps are recorded between them.                      *)
(***************************************************************************)
BusErrors == {-5, -6}
BusResults == {0} \cup BusErrors

W8(addr, val, res) == <<"w8", addr, val, res>>
W16(addr, hi, lo, res) == <<"w16", addr, hi, lo, res>>
R8(addr, res) == <<"r8", addr, res>>
\* A read whose byte is kept: val is what the device returned (0 on failure).
R8V(addr, val, res) == <<"r8", addr, IF res < 0 THEN 0 ELSE val, res>>
\* sensor_fp5529_actuator_wait_busy has returned to its caller.
WaitReturned == <<"wait_busy">>
USleep(us) == <<"usleep", us>>
MSleep(ms) == <<"msleep", ms>>

IsWrite(e) == e[1] \in {"w8", "w16"}
IsTransfer(e) == e[1] \in {"w8", "w16", "r8"}
Result(e) == e[Len(e)]

VARIABLES
    position,   \* actuator->position
    pc,         \* program point of the call in flight
    op,         \* the entry point that was called
    arg,        \* its u32 argument (*info / val)
    ret,        \* its return value
    bus,        \* bus transfers and sleeps issued by the call, in order
    cal,        \* cal_data handed to sensor_fp5529_init
    sysfs,      \* contents of is_get_sysfs_actuator() seen by the call
    step,       \* index of the next register write / list entry (i)
    info,       \* wait_busy: u32 info
    count,      \* wait_busy: int count
    polls,      \* wait_busy: status reads issued by this call
    last        \* the latest status read: failed or ok, the byte read, and
                \* whether msleep(10) followed it

vars == <<position, pc, op, arg, ret, bus, cal, sysfs, step, info, count, polls, last>>

NoSysfs ==
    [init_step |-> 0,
     init_positions |-> [k \in 1..MaxInitStep |-> 0],
     init_delays |-> [k \in 1..MaxInitStep |-> 0],
     enable_fixed |-> FALSE,
     fixed_position |-> 0]

NoLast == [read |-> "none", val |-> 0, slept |-> FALSE]

\* sensor_fp5529_actuator_probe_i2c: position = 0, nothing in flight.
Init ==
    /\ position = 0
    /\ pc = "idle"
    /\ op = "none"
    /\ arg = 0
    /\ ret = 0
    /\ bus = <<>>
    /\ cal = NoCal
    /\ sysfs = NoSysfs
    /\ step = 0
    /\ info = GARBAGE
    /\ count = 0
    /\ polls = 0
    /\ last = NoLast

(***************************************************************************)
(* sensor_fp5529_write_position                                            *)
(***************************************************************************)
\* Mutant: only bit 8 of the position reaches the high byte.
mut_val_high(val) == Shr(BitAnd(val, 256), 8)

val_high(val) == Shr(BitAnd(val, 768), 8)

\* Mutant: the top bit of the low byte is lost.
mut_val_low(val) == BitAnd(val, 127)

val_low(val) == BitAnd(val, 255)

\* Mutant: the range check compares val as a signed int.
mut_write_position(val, r) ==
    IF val > FP5529_POS_MAX_SIZE
    THEN [ret |-> -EINVAL, bus |-> <<>>]
    ELSE [ret |-> r, bus |-> <<W16(REG_VCM_MSB, val_high(val), val_low(val), r)>>]

\* Mutant: the result of the packed write is dropped, the call reports success.
mut_write_position_swallow(val, r) ==
    IF u32_gt(val, FP5529_POS_MAX_SIZE)
    THEN [ret |-> -EINVAL, bus |-> <<>>]
    ELSE [ret |-> 0, bus |-> <<W16(REG_VCM_MSB, val_high(val), val_low(val), r)>>]

\* The return value and the bus traffic of one call; r is the result the
\* adapter gives the packed write, if the call gets that far.
write_position(val, r) ==
    IF u32_gt(val, FP5529_POS_MAX_SIZE)
    THEN [ret |-> -EINVAL, bus |-> <<>>]
    ELSE [ret |-> r, bus |-> <<W16(REG_VCM_MSB, val_high(val), val_low(val), r)>>]


(***************************************************************************)
(* sensor_fp5529_actuator_set_position                                     *)
(***************************************************************************)
\* The position handed to write_position: the request, or the sysfs
\* override (an int stored into a u32) when fixed-position testing is on.
effective_position(t, s) ==
    IF s.enable_fixed THEN s.fixed_position ELSE t

\* One whole call: request t, sysfs contents s, bus result r.
SetPosition(t, s, r) ==
    /\ pc = "idle"
    /\ pc' = "done"
    /\ op' = "set_position"
    /\ arg' = t
    /\ sysfs' = s
    /\ IF u32_gt(t, FP5529_POS_MAX_SIZE)
       THEN /\ ret' = -EINVAL
            /\ bus' = <<>>
            /\ UNCHANGED position
       ELSE LET p == effective_position(t, s)
                w == write_position(p, r)
            IN  /\ ret' = w.ret
                /\ bus' = w.bus
                /\ position' = IF w.ret < 0 THEN position ELSE p
    /\ UNCHANGED <<cal, step, info, count, polls, last>>

\* The position-write primitive called on its own with value v.
WritePosition(v, r) ==
    /\ pc = "idle"
    /\ pc' = "done"
    /\ op' = "write_position"
    /\ arg' = v
    /\ ret' = write_position(v, r).ret
    /\ bus' = write_position(v, r).bus
    /\ UNCHANGED <<position, cal, sysfs, step, info, count, polls, last>>

(***************************************************************************)
(* sensor_fp5529_init                                                      *)
(***************************************************************************)
\* Mutant: control_mode shifted by 4 instead of 5.
mut_acc_mode_byte(c) ==
    U8(BitOr(Shl(BitAnd(c.control_mode, 255), 4), BitAnd(c.prescale, 255)))

\* i2c_data[1] for REG_ACC_MODE on the calibrated path (u32 expression
\* stored into a u8).
acc_mode_byte(c) ==
    U8(BitOr(Shl(BitAnd(c.control_mode, 255), 5), BitAnd(c.prescale, 255)))

\* Mutant: on the default path power-down is cleared before it is set.
mut_init_writes(c) ==
    IF ~c.present
    THEN << <<REG_CONTROL, 0>>, <<REG_CONTROL, 1>>, <<REG_CONTROL, Shl(1, 1)>>,
            <<REG_ACC_MODE, 1>>, <<REG_ACC_TIME, 54>> >>
    ELSE << <<REG_CONTROL, 1>>, <<REG_CONTROL, 0>>, <<REG_CONTROL, Shl(1, 1)>>,
            <<REG_ACC_MODE, acc_mode_byte(c)>>, <<REG_ACC_TIME, U8(c.acctime)>> >>

\* The register writes of sensor_fp5529_init, in program order.
init_writes(c) ==
    IF ~c.present
    THEN << <<REG_CONTROL, 1>>, <<REG_CONTROL, 0>>, <<REG_CONTROL, Shl(1, 1)>>,
            <<REG_ACC_MODE, 1>>, <<REG_ACC_TIME, 54>> >>
    ELSE << <<REG_CONTROL, 1>>, <<REG_CONTROL, 0>>, <<REG_CONTROL, Shl(1, 1)>>,
            <<REG_ACC_MODE, acc_mode_byte(c)>>, <<REG_ACC_TIME, U8(c.acctime)>> >>

\* usleep_range(PWR_ON_DELAY) follows the second write (PD disable).
settle_after(k) == IF k = 2 THEN <<USleep(PWR_ON_DELAY)>> ELSE <<>>

(***************************************************************************)
(* sensor_fp5529_valid_check                                               *)
(***************************************************************************)
\* Mutant: the delays are not checked.
mut_valid_check(s) ==
    IF s.init_step > 0
    THEN IF \E k \in 1..s.init_step : s.init_positions[k] < 0
         THEN 0
         ELSE s.init_step
    ELSE 0

valid_check(s) ==
    IF s.init_step > 0
    THEN IF \E k \in 1..s.init_step :
                s.init_positions[k] < 0 \/ s.init_delays[k] < 0
         THEN 0
         ELSE s.init_step
    ELSE 0

(***************************************************************************)
(* sensor_fp5529_actuator_init                                             *)
(***************************************************************************)
\* Entry: cal_data c is handed to sensor_fp5529_init.
ActuatorInit(c) ==
    /\ pc = "idle"
    /\ pc' = "init"
    /\ op' = "init"
    /\ arg' = 0
    /\ ret' = 0
    /\ bus' = <<>>
    /\ cal' = c
    /\ step' = 1
    /\ UNCHANGED <<position, sysfs, info, count, polls, last>>

\* Mutant: the sign of the error test is reversed.
mut_bus_failed(r) == r > 0

\* if (ret < 0) goto p_err;
bus_failed(r) == r < 0

\* One addr8_write8 of sensor_fp5529_init with bus result r.  A failure
\* returns r from sensor_fp5529_init and from sensor_fp5529_actuator_init;
\* after the last write sensor_fp5529_init_position is entered.
SensorInitWrite(r) ==
    /\ pc = "init"
    /\ LET w == init_writes(cal)[step]
       IN  bus' = bus \o <<W8(w[1], w[2], r)>>
                      \o (IF bus_failed(r) THEN <<>> ELSE settle_after(step))
    /\ ret' = r
    /\ IF bus_failed(r)
       THEN pc' = "done" /\ UNCHANGED step
       ELSE IF step < Len(init_writes(cal))
            THEN pc' = "init" /\ step' = step + 1
            ELSE pc' = "init_position" /\ UNCHANGED step
    /\ UNCHANGED <<position, op, arg, cal, sysfs, info, count, polls, last>>

(***************************************************************************)
(* sensor_fp5529_init_position                                             *)
(***************************************************************************)
\* What init_positions[i] yields once the loop has left i = init_step: the
\* entry after the counted ones, or, with the array full, a read past its
\* end.
OutOfBoundsReads == {-1, 7}

after_loop_entry(s) ==
    IF s.init_step < MaxInitStep
    THEN {s.init_positions[s.init_step + 1]}
    ELSE OutOfBoundsReads

\* Entry of init_position: s is what is_get_sysfs_actuator() holds; the
\* result of valid_check picks the list walk or the default sequence.
InitPositionEnter(s) ==
    /\ pc = "init_position"
    /\ sysfs' = s
    /\ step' = 0
    /\ pc' = IF valid_check(s) > 0 THEN "init_list" ELSE "init_default"
    /\ UNCHANGED <<position, op, arg, ret, bus, cal, info, count, polls, last>>

\* One iteration of the list walk (i = step), bus result r; on leaving the
\* loop actuator->position is assigned.
InitPositionList(r) ==
    /\ pc = "init_list"
    /\ LET n == valid_check(sysfs)
           w == write_position(sysfs.init_positions[step + 1], r)
       IN  /\ ret' = w.ret
           /\ IF w.ret < 0
              THEN /\ bus' = bus \o w.bus
                   /\ pc' = "done"
                   /\ UNCHANGED <<position, step>>
              ELSE /\ bus' = bus \o w.bus \o <<MSleep(sysfs.init_delays[step + 1])>>
                   /\ step' = step + 1
                   /\ IF step + 1 < n
                      THEN pc' = "init_list" /\ UNCHANGED position
                      ELSE /\ pc' = "done"
                           /\ \E v \in after_loop_entry(sysfs) : position' = v
    /\ UNCHANGED <<op, arg, cal, sysfs, info, count, polls, last>>

default_moves ==
    << <<DEF_FP5529_FIRST_POSITION, DEF_FP5529_FIRST_DELAY>>,
       <<DEF_FP5529_SECOND_POSITION, DEF_FP5529_SECOND_DELAY>> >>

\* One write of the two-step default sequence, bus result r.
InitPositionDefault(r) ==
    /\ pc = "init_default"
    /\ LET m == default_moves[step + 1]
           w == write_position(m[1], r)
       IN  /\ ret' = w.ret
           /\ IF w.ret < 0
              THEN /\ bus' = bus \o w.bus
                   /\ pc' = "done"
                   /\ UNCHANGED <<position, step>>
              ELSE /\ bus' = bus \o w.bus \o <<MSleep(m[2])>>
                   /\ step' = step + 1
                   /\ IF step + 1 < Len(default_moves)
                      THEN pc' = "init_default" /\ UNCHANGED position
                      ELSE /\ pc' = "done"
                           /\ position' = DEF_FP5529_SECOND_POSITION
    /\ UNCHANGED <<op, arg, cal, sysfs, info, count, polls, last>>


(***************************************************************************)
(* sensor_fp5529_actuator_get_status                                       *)
(***************************************************************************)
\* Mutant: only bit 0 of the status byte is looked at.
mut_busy_status(val) ==
    IF BitAnd(val, 1) = 0 THEN ACTUATOR_STATUS_NO_BUSY ELSE ACTUATOR_STATUS_BUSY


busy_status(val) ==
    IF BitAnd(val, 3) = 0 THEN ACTUATOR_STATUS_NO_BUSY ELSE ACTUATOR_STATUS_BUSY

\* The return value and *info after one call: the read returned r and, when
\* it succeeded, the byte val; old is what *info held before.
get_status(old, r, val) ==
    IF r < 0
    THEN [ret |-> r, info |-> old]
    ELSE [ret |-> r, info |-> busy_status(val)]

\* One whole call from the host; the caller's u32 val is initialised to 0,
\* which is not modelled as a status (GARBAGE until written).
GetStatus(r, val) ==
    /\ pc = "idle"
    /\ pc' = "done"
    /\ op' = "get_status"
    /\ arg' = 0
    /\ ret' = get_status(GARBAGE, r, val).ret
    /\ info' = get_status(GARBAGE, r, val).info
    /\ bus' = <<R8(REG_STATUS, r)>>
    /\ last' = [read |-> IF r < 0 THEN "fail" ELSE "ok",
                 val |-> IF r < 0 THEN 0 ELSE val, slept |-> FALSE]
    /\ UNCHANGED <<position, cal, sysfs, step, count, polls>>

(***************************************************************************)
(* sensor_fp5529_actuator_wait_busy                                        *)
(***************************************************************************)
\* Entry: info is declared without an initialiser, so it holds whatever u
\* the stack held; count = 0; msleep(5).
WaitBusy(u) ==
    /\ pc = "idle"
    /\ pc' = "wait"
    /\ op' = "wait_busy"
    /\ arg' = 0
    /\ ret' = 0
    /\ bus' = <<MSleep(5)>>
    /\ info' = u
    /\ count' = 0
    /\ polls' = 0
    /\ last' = NoLast
    /\ UNCHANGED <<position, cal, sysfs, step>>

\* Mutant: one poll too many.
mut_wait_again(i, c) == i = ACTUATOR_STATUS_BUSY /\ c <= BusyPollLimit

\* When the do-while goes round again.
wait_again(i, c) == i = ACTUATOR_STATUS_BUSY /\ c < BusyPollLimit

\* One iteration of the do-while: the status read returns r (and val), the
\* return value of get_status is dropped, msleep(10) when info says busy.
\* When the loop ends inside a soft landing, wait_busy returns into it: its
\* locals are gone, its return value is dropped, the sequence moves on.
WaitBusyPoll(r, val) ==
    /\ pc = "wait"
    /\ LET g == get_status(info, r, val)
       IN  IF wait_again(g.info, count + 1) \/ op = "wait_busy"
           THEN /\ info' = g.info
                /\ last' = [read |-> IF r < 0 THEN "fail" ELSE "ok",
                            val |-> IF r < 0 THEN 0 ELSE val,
                            slept |-> g.info = ACTUATOR_STATUS_BUSY]
                /\ count' = count + 1
                /\ polls' = polls + 1
                /\ pc' = IF wait_again(g.info, count + 1) THEN "wait" ELSE "done"
                /\ ret' = 0
                /\ UNCHANGED <<bus, step>>
           ELSE /\ info' = GARBAGE
                /\ last' = NoLast
                /\ count' = 0
                /\ polls' = 0
                /\ pc' = "landing"
                /\ step' = step + 1
                /\ bus' = bus \o <<WaitReturned>>
                /\ UNCHANGED ret
    /\ UNCHANGED <<position, op, arg, cal, sysfs>>

(***************************************************************************)
(* sensor_fp5529_actuator_soft_landing                                     *)
(***************************************************************************)
mut_landing_position(pos1, pos2) == BitOr(Shl(BitAnd(pos1, 1), 8), pos2)

\* pos1 = pos1 & 0x03; position = ((u16)pos1 << 8) | pos2;
landing_position(pos1, pos2) == BitOr(Shl(BitAnd(pos1, 3), 8), pos2)

mut_preset_value(pos1, pos2) ==
    U8(IF BitAnd(BitAnd(pos1, 3), 2) # 0 THEN 255 ELSE landing_position(pos1, pos2))

\* i2c_data[1] = pos1 & 0x02 ? 0xff : position >> 1, with pos1 already masked.
preset_value(pos1, pos2) ==
    U8(IF BitAnd(BitAnd(pos1, 3), 2) # 0 THEN 255
       ELSE Shr(landing_position(pos1, pos2), 1))

mut_landing_program ==
    << <<"wait">>, <<"read", REG_VCM_MSB>>, <<"read", REG_VCM_LSB>>,
       <<"write", REG_PRESET>>, <<"wait">>,
       <<"write", REG_CONTROL>>,
       <<"write", REG_ACC_MODE>>, <<"wait">>,
       <<"write", REG_LAD_EN>>, <<"wait">>,
       <<"read", REG_VCM_MSB>>, <<"read", REG_VCM_LSB>> >>

\* The function body in program order: busy waits, position reads and
\* register writes.
landing_program ==
    << <<"wait">>, <<"read", REG_VCM_MSB>>, <<"read", REG_VCM_LSB>>,
       <<"write", REG_PRESET>>, <<"wait">>,
       <<"write", REG_CONTROL>>, <<"wait">>,
       <<"write", REG_ACC_MODE>>, <<"wait">>,
       <<"write", REG_LAD_EN>>, <<"wait">>,
       <<"read", REG_VCM_MSB>>, <<"read", REG_VCM_LSB>> >>

\* The byte an earlier read of this call left in pos1 / pos2: entry k of bus.
byte_read(b, k) == b[k][3]

\* The value written to register addr; b is the bus traffic so far, whose
\* last two entries at the preset write are the reads of pos1 and pos2.
landing_value(addr, b) ==
    IF addr = REG_PRESET THEN preset_value(byte_read(b, Len(b) - 1), byte_read(b, Len(b)))
    ELSE IF addr = REG_CONTROL THEN 2
    ELSE IF addr = REG_ACC_MODE THEN U8(BitOr(Shl(5, 5), 1))
    ELSE 1

\* Entry.
SoftLanding ==
    /\ pc = "idle"
    /\ pc' = "landing"
    /\ op' = "soft_landing"
    /\ arg' = 0
    /\ ret' = 0
    /\ bus' = <<>>
    /\ step' = 1
    /\ UNCHANGED <<position, cal, sysfs, info, count, polls, last>>

\* sensor_fp5529_actuator_wait_busy(subdev) called from the sequence; u is
\* what its uninitialised info holds.
SoftLandingWait(u) ==
    /\ pc = "landing"
    /\ landing_program[step][1] = "wait"
    /\ pc' = "wait"
    /\ bus' = bus \o <<MSleep(5)>>
    /\ info' = u
    /\ count' = 0
    /\ polls' = 0
    /\ last' = NoLast
    /\ UNCHANGED <<position, op, arg, ret, cal, sysfs, step>>

\* One addr8_write8 of the sequence with bus result r.
SoftLandingWrite(r) ==
    /\ pc = "landing"
    /\ landing_program[step][1] = "write"
    /\ LET addr == landing_program[step][2]
       IN  bus' = bus \o <<W8(addr, landing_value(addr, bus), r)>>
    /\ ret' = r
    /\ IF r < 0
       THEN pc' = "done" /\ UNCHANGED step
       ELSE pc' = "landing" /\ step' = step + 1
    /\ UNCHANGED <<position, op, arg, cal, sysfs, info, count, polls, last>>

\* One addr8_read8 of a position register with bus result r and byte val.
\* After the last read the final position decides the outcome.
SoftLandingRead(r, val) ==
    /\ pc = "landing"
    /\ landing_program[step][1] = "read"
    /\ bus' = bus \o <<R8V(landing_program[step][2], val, r)>>
    /\ IF r < 0
       THEN /\ ret' = r
            /\ pc' = "done"
            /\ UNCHANGED <<position, step>>
       ELSE IF step < Len(landing_program)
            THEN /\ ret' = r
                 /\ pc' = "landing"
                 /\ step' = step + 1
                 /\ UNCHANGED position
            ELSE LET p == landing_position(byte_read(bus, Len(bus)), val)
                 IN  /\ pc' = "done"
                     /\ UNCHANGED step
                     /\ IF p > 0
                        THEN position' = p /\ ret' = HW_SOFTLANDING_FAIL
                        ELSE ret' = r /\ UNCHANGED position
    /\ UNCHANGED <<op, arg, cal, sysfs, info, count, polls, last>>

(***************************************************************************)
(* The control-call boundary: sensor_fp5529_actuator_ioctl, g_ctrl, s_ctrl *)
(* and core_ops.init.  None of them keeps state: each maps the return      *)
(* value r of the function it calls to the value the host receives.        *)
(***************************************************************************)
V4L2_CID_ACTUATOR_GET_STATUS == "V4L2_CID_ACTUATOR_GET_STATUS"
V4L2_CID_ACTUATOR_SET_POSITION == "V4L2_CID_ACTUATOR_SET_POSITION"
V4L2_CID_ACTUATOR_SOFT_LANDING == "V4L2_CID_ACTUATOR_SOFT_LANDING"
SENSOR_IOCTL_ACT_S_CTRL == "SENSOR_IOCTL_ACT_S_CTRL"
SENSOR_IOCTL_ACT_G_CTRL == "SENSOR_IOCTL_ACT_G_CTRL"

g_ctrl(id, r) ==
    IF id = V4L2_CID_ACTUATOR_GET_STATUS
    THEN (IF r < 0 THEN -EINVAL ELSE r)
    ELSE -EINVAL

\* Mutant: the result of the called function is handed on as it is.
mut_s_ctrl(id, r) ==
    IF id \in {V4L2_CID_ACTUATOR_SET_POSITION, V4L2_CID_ACTUATOR_SOFT_LANDING}
    THEN r
    ELSE -EINVAL

\* Built with USE_CAMERA_ACT_DRIVER_SOFT_LANDING.
s_ctrl(id, r) ==
    IF id = V4L2_CID_ACTUATOR_SET_POSITION
    THEN (IF r # 0 THEN -EINVAL ELSE r)
    ELSE IF id = V4L2_CID_ACTUATOR_SOFT_LANDING
    THEN (IF r = HW_SOFTLANDING_FAIL THEN r
          ELSE IF r # 0 THEN -EINVAL ELSE r)
    ELSE -EINVAL

\* Mutant: every nonzero result of a control call becomes -EINVAL.
mut_ioctl(cmd, id, r) ==
    IF cmd = SENSOR_IOCTL_ACT_S_CTRL
    THEN (IF s_ctrl(id, r) # 0 THEN -EINVAL ELSE 0)
    ELSE IF cmd = SENSOR_IOCTL_ACT_G_CTRL THEN g_ctrl(id, r)
    ELSE -EINVAL

ioctl(cmd, id, r) ==
    IF cmd = SENSOR_IOCTL_ACT_S_CTRL THEN s_ctrl(id, r)
    ELSE IF cmd = SENSOR_IOCTL_ACT_G_CTRL THEN g_ctrl(id, r)
    ELSE -EINVAL

\* The functions the host reaches through core_ops.
HostOps == {"init", "get_status", "set_position", "soft_landing"}

\* What the host receives when function o, called through core_ops, has
\* returned r: init is called directly, the others through ioctl.
host_return(o, r) ==
    IF o = "init" THEN r
    ELSE IF o = "get_status"
    THEN ioctl(SENSOR_IOCTL_ACT_G_CTRL, V4L2_CID_ACTUATOR_GET_STATUS, r)
    ELSE IF o = "set_position"
    THEN ioctl(SENSOR_IOCTL_ACT_S_CTRL, V4L2_CID_ACTUATOR_SET_POSITION, r)
    ELSE ioctl(SENSOR_IOCTL_ACT_S_CTRL, V4L2_CID_ACTUATOR_SOFT_LANDING, r)

(***************************************************************************)
(* Back to the host.                                                       *)
(***************************************************************************)
Return ==
    /\ pc = "done"
    /\ pc' = "idle"
    /\ op' = "none"
    /\ arg' = 0
    /\ ret' = 0
    /\ bus' = <<>>
    /\ cal' = NoCal
    /\ sysfs' = NoSysfs
    /\ step' = 0
    /\ info' = GARBAGE
    /\ count' = 0
    /\ polls' = 0
    /\ last' = NoLast
    /\ UNCHANGED position

(***************************************************************************)
(* Inputs.                                                                 *)
(***************************************************************************)
StatusBytes == {0, 1, 2, 3, 4, 252, 255}
UninitInfo == {ACTUATOR_STATUS_NO_BUSY, ACTUATOR_STATUS_BUSY, GARBAGE}

Cal(cm, ps, at) == [present |-> TRUE, control_mode |-> cm, prescale |-> ps, acctime |-> at]
CalInputs == {NoCal, Cal(2, 3, 16)}

InitPositionValues == {-1, 300, FP5529_POS_MAX_SIZE + 1}
InitDelayValues == {-1, 7}
InitLists ==
    {[init_step |-> n, init_positions |-> ps, init_delays |-> ds,
      enable_fixed |-> FALSE, fixed_position |-> 0] :
        n \in -1..MaxInitStep,
        ps \in [1..MaxInitStep -> InitPositionValues],
        ds \in [1..MaxInitStep -> InitDelayValues]}

Fixed(on, p) == [NoSysfs EXCEPT !.enable_fixed = on, !.fixed_position = p]
FixedInputs == {NoSysfs, Fixed(TRUE, 512), Fixed(TRUE, FP5529_POS_MAX_SIZE + 1),
                Fixed(TRUE, -1), Fixed(FALSE, 512)}

Targets == {0, 528, FP5529_POS_MAX_SIZE, FP5529_POS_MAX_SIZE + 1, -1}

\* Every value of a u8 register.
AllBytes == 0..255

\* Bytes the position registers return.
HighBytes == {0, 2}
LowBytes == {0, 16}

Next ==
    \/ \E t \in Targets, s \in FixedInputs, r \in BusResults : SetPosition(t, s, r)
    \/ \E v \in Targets, r \in BusResults : WritePosition(v, r)
    \/ \E c \in CalInputs : ActuatorInit(c)
    \/ \E r \in BusResults : SensorInitWrite(r)
    \/ \E s \in InitLists : InitPositionEnter(s)
    \/ \E r \in BusResults : InitPositionList(r)
    \/ \E r \in BusResults : InitPositionDefault(r)
    \/ \E r \in BusResults, val \in StatusBytes : GetStatus(r, val)
    \/ \E u \in UninitInfo : WaitBusy(u)
    \/ \E r \in BusResults, val \in StatusBytes : WaitBusyPoll(r, val)
    \/ SoftLanding
    \/ \E u \in UninitInfo : SoftLandingWait(u)
    \/ \E r \in BusResults : SoftLandingWrite(r)
    \/ \E r \in BusResults, val \in HighBytes \cup LowBytes : SoftLandingRead(r, val)
    \/ Return

Spec == Init /\ [][Next]_vars


(***************************************************************************)
(* The position primitives over every 10-bit target and the values just    *)
(* above the range; -1 and -2147483647 are the images of 0xFFFFFFFF and    *)
(* 0x80000001.                                                             *)
(***************************************************************************)
AllTargets == (0..(FP5529_POS_MAX_SIZE + MaxOver)) \cup {-1, -2147483647, 65536, 2147483647}
OverTargets == {t \in AllTargets : u32_gt(t, FP5529_POS_MAX_SIZE)}

NextPos ==
    \/ \E v \in AllTargets, r \in BusResults : WritePosition(v, r)
    \/ \E t \in OverTargets \cup Targets, s \in FixedInputs, r \in BusResults :
            SetPosition(t, s, r)
    \/ Return

SpecPos == Init /\ [][NextPos]_vars

(***************************************************************************)
(* Initialisation over a grid of calibration triples (u8 fields).          *)
(***************************************************************************)
CalFieldValues == {0, 1, 2, 3, 5, 7, 8, 16, 33, 255}
CalGrid == {Cal(cm, ps, at) : cm \in CalFieldValues, ps \in CalFieldValues,
                              at \in CalFieldValues}

NextCal ==
    \/ \E c \in CalGrid : ActuatorInit(c)
    \/ \E r \in BusResults : SensorInitWrite(r)
    \/ InitPositionEnter(NoSysfs)
    \/ \E r \in BusResults : InitPositionDefault(r)
    \/ Return

SpecCal == Init /\ [][NextCal]_vars

(***************************************************************************)
(* The busy poll on its own.  The calling thread keeps running, so a loop  *)
(* iteration that can be taken is taken.                                   *)
(***************************************************************************)
WaitBusyStep == \E r \in BusResults, val \in StatusBytes : WaitBusyPoll(r, val)

NextWait ==
    \/ \E u \in UninitInfo : WaitBusy(u)
    \/ WaitBusyStep
    \/ \E r \in BusResults, val \in StatusBytes : GetStatus(r, val)
    \/ Return

SpecWait == Init /\ [][NextWait]_vars /\ WF_vars(WaitBusyStep)

(***************************************************************************)
(* get_status over every byte the status register can hold.                *)
(***************************************************************************)
NextStatus ==
    \/ \E r \in BusResults, val \in AllBytes : GetStatus(r, val)
    \/ Return

SpecStatus == Init /\ [][NextStatus]_vars

(***************************************************************************)
(* set_position over every target up to the maximum and just above it,     *)
(* without the fixed-position override, on a working bus.                  *)
(***************************************************************************)
RoundTargets == 0..(FP5529_POS_MAX_SIZE + MaxOver)

NextRound ==
    \/ \E t \in RoundTargets : SetPosition(t, NoSysfs, 0)
    \/ Return

SpecRound == Init /\ [][NextRound]_vars

(***************************************************************************)
(* Soft landing over a wide set of final read-back bytes.                  *)
(***************************************************************************)
FinalBytes == {0, 1, 2, 3, 16, 252, 255}
LandStatusBytes == {0, 1}

NextLand ==
    \/ SoftLanding
    \/ \E u \in UninitInfo : SoftLandingWait(u)
    \/ \E r \in BusResults, val \in LandStatusBytes : WaitBusyPoll(r, val)
    \/ \E r \in BusResults : SoftLandingWrite(r)
    \/ \E r \in BusResults,
          val \in (IF step < Len(landing_program) - 1 THEN HighBytes \cup LowBytes
                   ELSE FinalBytes) : SoftLandingRead(r, val)
    \/ Return

SpecLand == Init /\ [][NextLand]_vars

(***************************************************************************)
(* Soft landing over every initial position the registers can report, on a *)
(* device that is idle and lands.                                          *)
(***************************************************************************)
InitialHighBytes == (0..7) \cup (252..255)

NextPreset ==
    \/ SoftLanding
    \/ SoftLandingWait(ACTUATOR_STATUS_NO_BUSY)
    \/ WaitBusyPoll(0, 0)
    \/ \E r \in BusResults : SoftLandingWrite(r)
    \/ \E val \in (IF step = 2 THEN InitialHighBytes
                    ELSE IF step = 3 THEN AllBytes ELSE {0}) : SoftLandingRead(0, val)
    \/ Return

SpecPreset == Init /\ [][NextPreset]_vars

(***************************************************************************)
(* Properties.                                                             *)
(***************************************************************************)
Done(o) == pc = "done" /\ op = o

IsPrefix(a, b) == Len(a) <= Len(b) /\ SubSeq(b, 1, Len(a)) = a

Writes(b) == SelectSeq(b, IsWrite)

NoFailure(b) == \A k \in 1..Len(b) : IsTransfer(b[k]) => Result(b[k]) >= 0

InRange(t) == 0 <= t /\ t <= FP5529_POS_MAX_SIZE

\* C1: a target above FP5529_POS_MAX_SIZE makes write_position return the
\* range error (-EINVAL) with no bus write issued, and so does set_position
\* when no fixed position is enabled.
C1_OutOfRangeRejected ==
    /\ (Done("write_position") /\ ~InRange(arg))
            => (ret = -EINVAL /\ Writes(bus) = <<>>)
    /\ (Done("set_position") /\ ~InRange(arg) /\ ~sysfs.enable_fixed)
            => (ret = -EINVAL /\ Writes(bus) = <<>>)

C1_Witness ==
    /\ Done("write_position")
    /\ arg = FP5529_POS_MAX_SIZE + 1
    /\ ret = -EINVAL
    /\ bus = <<>>

\* C2: a target in [0, FP5529_POS_MAX_SIZE] makes write_position issue
\* exactly one packed two-register write at 0x03 with
\* high = (target >> 8) & 0x3 and low = target & 0xFF.
C2_PackedWrite ==
    (Done("write_position") /\ InRange(arg)) =>
        /\ Len(bus) = 1
        /\ \E r \in BusResults :
              bus[1] = <<"w16", 3, (arg \div 256) % 4, arg % 256, r>>

C2_Witness ==
    /\ Done("write_position")
    /\ arg = 528
    /\ bus = << <<"w16", 3, 2, 16, 0>> >>

DefaultInitTrace ==
    << <<"w8", 2, 1, 0>>, <<"w8", 2, 0, 0>>, <<"usleep", 5000>>,
       <<"w8", 2, 2, 0>>, <<"w8", 6, 1, 0>>, <<"w8", 7, 54, 0>> >>

PastRegisters == pc \in {"init_position", "init_list", "init_default", "done"}

IsPositionStep(e) == e[1] \in {"w16", "msleep"}

\* C3: without calibration and with no bus failure, initialize issues
\* control=0x01, control=0x00, the 5 ms settle delay, control=0x02,
\* acceleration-mode=0x01, acceleration-time=0x36, in that order, and nothing
\* else before init_position (whose traffic is position writes and sleeps).
C3_DefaultInitTrace ==
    (op = "init" /\ ~cal.present /\ NoFailure(bus)) =>
        /\ pc = "init" => IsPrefix(bus, DefaultInitTrace)
        /\ PastRegisters =>
              /\ IsPrefix(DefaultInitTrace, bus)
              /\ \A k \in (Len(DefaultInitTrace) + 1)..Len(bus) : IsPositionStep(bus[k])

C3_Witness ==
    /\ op = "init"
    /\ ~cal.present
    /\ pc = "init_position"
    /\ bus = DefaultInitTrace

\* C4: with calibration and no bus failure, initialize issues the same first
\* four steps and then acceleration-mode = ((control_mode << 5) | prescale)
\* reduced to 8 bits and acceleration-time = acc_time; (0x2, 0x3, 0x10) gives
\* 0x43 and 0x10.
C4_CalibratedInit ==
    (op = "init" /\ cal.present /\ NoFailure(bus)) =>
        /\ pc = "init" =>
              IsPrefix(SubSeq(bus, 1, IF Len(bus) < 4 THEN Len(bus) ELSE 4), DefaultInitTrace)
        /\ PastRegisters =>
              /\ SubSeq(bus, 1, 4) = SubSeq(DefaultInitTrace, 1, 4)
              /\ bus[5] = <<"w8", 6, BitOr(cal.control_mode * 32, cal.prescale) % 256, 0>>
              /\ bus[6] = <<"w8", 7, cal.acctime, 0>>
              /\ cal = Cal(2, 3, 16) => (bus[5][3] = 67 /\ bus[6][3] = 16)

C4_Witness ==
    /\ op = "init"
    /\ cal = Cal(2, 3, 16)
    /\ pc = "init_default"
    /\ bus[5] = <<"w8", 6, 67, 0>>
    /\ bus[6] = <<"w8", 7, 16, 0>>


\* The init list as the caller supplied it: its counted entries.
ListCount == sysfs.init_step
ListFullyValid ==
    /\ ListCount >= 1
    /\ \A k \in 1..ListCount :
          sysfs.init_positions[k] >= 0 /\ sysfs.init_delays[k] >= 0

\* The bus traffic of init_position: what follows the six register steps.
PositionTraffic == SubSeq(bus, Len(DefaultInitTrace) + 1, Len(bus))

ReachedInitPosition == op = "init" /\ Len(bus) >= 6 /\ NoFailure(SubSeq(bus, 1, 6))

ListTrace(n) ==
    [k \in 1..(2 * n) |->
        IF k % 2 = 1
        THEN <<"w16", 3, (sysfs.init_positions[(k + 1) \div 2] \div 256) % 4,
               sysfs.init_positions[(k + 1) \div 2] % 256, 0>>
        ELSE <<"msleep", sysfs.init_delays[k \div 2]>>]

\* C5: after init_position has walked a non-empty, fully valid list (all
\* entries within the position range) with no bus failure, the positions were
\* written in list order, each followed by its delay, and
\* actuator->position is the last list entry.
C5_FinalPositionIsLastEntry ==
    (/\ Done("init")
     /\ ReachedInitPosition
     /\ NoFailure(bus)
     /\ ListFullyValid
     /\ \A k \in 1..ListCount : InRange(sysfs.init_positions[k]))
        => /\ PositionTraffic = ListTrace(ListCount)
           /\ position = sysfs.init_positions[ListCount]

DefaultMoveTrace ==
    << <<"w16", 3, 0, 100, 0>>, <<"msleep", 20>>,
       <<"w16", 3, 0, 180, 0>>, <<"msleep", 10>> >>

\* A failed write ends the traffic: everything before it succeeded.
EndsAtFailure(b) == \A k \in 1..Len(b) : (IsTransfer(b[k]) /\ Result(b[k]) < 0) => k = Len(b)

SameButResult(e, f) == Len(e) = Len(f) /\ \A j \in 1..(Len(e) - 1) : e[j] = f[j]

\* C6: with the init list empty (step count <= 0) or holding a negative
\* position or delay among its counted entries, init_position never walks
\* the list: its traffic is the default sequence (position 100, 20 ms,
\* position 180, 10 ms), cut short only by a failed write, and when no write
\* fails it is exactly that sequence and actuator->position is 180.
C6_InvalidListFallsBack ==
    (op = "init" /\ ~ListFullyValid) =>
        /\ pc # "init_list"
        /\ (Done("init") /\ ReachedInitPosition) =>
              /\ Len(PositionTraffic) <= Len(DefaultMoveTrace)
              /\ \A k \in 1..Len(PositionTraffic) :
                    SameButResult(PositionTraffic[k], DefaultMoveTrace[k])
              /\ EndsAtFailure(PositionTraffic)
              /\ NoFailure(bus) =>
                    (PositionTraffic = DefaultMoveTrace /\ position = 180 /\ ret = 0)

C6_Witness ==
    /\ Done("init")
    /\ sysfs.init_step = MaxInitStep
    /\ sysfs.init_positions[1] = 300
    /\ sysfs.init_delays[MaxInitStep] = -1
    /\ PositionTraffic = DefaultMoveTrace
    /\ position = 180

\* C7: whatever the init list holds, with no bus failure init_position
\* returns success.
C7_ListNeverAbortsInit ==
    (Done("init") /\ ReachedInitPosition /\ NoFailure(bus)) => ret = 0

\* C8: the first register write of initialize that fails ends the call: its
\* error is returned, it is the last thing on the bus (no later write, no
\* rollback), and init_position was not entered (no position write).
C8_InitStopsAtFirstFailure ==
    (op = "init" /\ \E k \in 1..Len(bus) : bus[k][1] = "w8" /\ Result(bus[k]) < 0) =>
        /\ pc = "done"
        /\ bus[Len(bus)][1] = "w8"
        /\ ret = Result(bus[Len(bus)])
        /\ ret \in BusErrors
        /\ NoFailure(SubSeq(bus, 1, Len(bus) - 1))
        /\ \A k \in 1..Len(bus) : bus[k][1] # "w16"
        /\ \E t \in {DefaultInitTrace,
                     SubSeq(DefaultInitTrace, 1, 4)
                        \o << <<"w8", 6, acc_mode_byte(cal), 0>>,
                              <<"w8", 7, cal.acctime, 0>> >>} :
              /\ Len(bus) <= Len(t)
              /\ \A k \in 1..Len(bus) : SameButResult(bus[k], t[k])

C8_Witness ==
    /\ Done("init")
    /\ Len(bus) = 4
    /\ bus[4] = <<"w8", 2, 2, -5>>
    /\ ret = -5

LoopEnded == pc # "wait"

\* C9: wait_busy terminates, reads the status register at most 15 times
\* whatever the reads return, and stops at the first read that observes
\* NotBusy.
C9_WaitBusyBounded ==
    /\ [](polls <= 15)
    /\ []((op = "wait_busy" /\ last.read = "ok" /\ last.val % 4 = 0) => LoopEnded)
    /\ ((pc = "wait") ~> (pc = "done"))

C9_Witness ==
    /\ Done("wait_busy")
    /\ polls = 15
    /\ last.read = "ok"
    /\ last.val % 4 # 0

\* C10: a status read that fails inside wait_busy ends the loop at that
\* iteration, with no msleep(10) and no further poll.
C10_FailedReadEndsWait ==
    (op = "wait_busy" /\ last.read = "fail") => (LoopEnded /\ ~last.slept)


\* What a caller can read from the int that wait_busy returns: zero as
\* NotBusy, anything else as Busy.
ReturnedStatus == IF ret = 0 THEN ACTUATOR_STATUS_NO_BUSY ELSE ACTUATOR_STATUS_BUSY

\* C11: wait_busy returns the last BusyStatus it observed: Busy after 15 busy
\* polls, NotBusy when the final poll observed NotBusy.
C11_ReturnsLastStatus ==
    (Done("wait_busy") /\ last.read = "ok") =>
        ReturnedStatus = (IF last.val % 4 = 0 THEN ACTUATOR_STATUS_NO_BUSY
                          ELSE ACTUATOR_STATUS_BUSY)


\* The soft landing ran to its final read-back.
LandingComplete == Len(SelectSeq(bus, IsTransfer)) = 8

\* The position the final read-back reports, from the two bytes as the bus
\* returned them.
ReadBack == (bus[Len(bus) - 1][3] % 4) * 256 + bus[Len(bus)][3]

\* C12: with no bus failure, soft_landing returns success exactly when the
\* final read-back ((high & 0x03) << 8) | low is 0; otherwise it returns the
\* soft-landing failure and actuator->position is that read-back.
C12_LandingOutcome ==
    (Done("soft_landing") /\ NoFailure(bus) /\ LandingComplete) =>
        /\ ret = 0 <=> ReadBack = 0
        /\ ReadBack # 0 => (ret = HW_SOFTLANDING_FAIL /\ position = ReadBack)

C12_Witness ==
    /\ Done("soft_landing") /\ NoFailure(bus) /\ LandingComplete
    /\ bus[Len(bus) - 1][3] = 2 /\ bus[Len(bus)][3] = 16
    /\ ret = HW_SOFTLANDING_FAIL
    /\ position = 528


\* The bus traffic of a soft landing that meets no failure: kind and register
\* of every entry, a busy wait being its 5 ms sleep and its return.
LandingShape ==
    << <<"msleep", 5>>, <<"wait_busy">>, <<"r8", 3>>, <<"r8", 4>>,
       <<"w8", 10>>, <<"msleep", 5>>, <<"wait_busy">>,
       <<"w8", 2>>, <<"msleep", 5>>, <<"wait_busy">>,
       <<"w8", 6>>, <<"msleep", 5>>, <<"wait_busy">>,
       <<"w8", 11>>, <<"msleep", 5>>, <<"wait_busy">>,
       <<"r8", 3>>, <<"r8", 4>> >>

\* The values of the register writes after the preset.
LandingWriteValues == (2 :> 2) @@ (6 :> 161) @@ (11 :> 1)

\* C13: the register writes of soft_landing are a prefix of preset (0x0A),
\* control (0x02) = 0x02, acc-mode (0x06) = 0xA1, landing-enable (0x0B) = 0x01;
\* a complete wait_busy runs before the initial position read, between
\* consecutive writes and before the final read-back; the first failing read
\* or write ends the sequence with that error and no further bus access.
C13_LandingSequence ==
    op = "soft_landing" =>
        /\ Len(bus) <= Len(LandingShape)
        /\ \A k \in 1..Len(bus) :
              /\ bus[k][1] = LandingShape[k][1]
              /\ Len(LandingShape[k]) = 2 => bus[k][2] = LandingShape[k][2]
              /\ (bus[k][1] = "w8" /\ bus[k][2] # 10) =>
                    bus[k][3] = LandingWriteValues[bus[k][2]]
              /\ (IsTransfer(bus[k]) /\ Result(bus[k]) < 0) =>
                    (k = Len(bus) /\ pc = "done" /\ ret = Result(bus[k]))

C13_Witness ==
    /\ Done("soft_landing")
    /\ Len(bus) = 11
    /\ Len(Writes(bus)) = 3
    /\ Result(bus[11]) = -5
    /\ ret = -5


\* The preset register has been written in this soft landing.
PresetWritten == op = "soft_landing" /\ Len(bus) >= 5

\* The position the initial read reports, from the two bytes as the bus
\* returned them.
InitialPosition == (bus[3][3] % 4) * 256 + bus[4][3]

\* C14: the value written to the preset register is 0xFF when bit 1 of the
\* masked high byte is set, else the initial position shifted right by one,
\* which fits in 8 bits.
C14_PresetValue ==
    PresetWritten =>
        /\ bus[5][2] = 10
        /\ bus[5][3] = (IF (bus[3][3] % 4) \div 2 = 1 THEN 255
                        ELSE InitialPosition \div 2)
        /\ bus[5][3] \in 0..255

C14_Witness ==
    /\ PresetWritten
    /\ bus[3][3] = 253 /\ bus[4][3] = 254
    /\ bus[5][3] = 255
    /\ Result(bus[5]) = 0


\* C15: with the fixed-position override enabled, set_position substitutes
\* the override before validating: for every requested target, above
\* FP5529_POS_MAX_SIZE included, an override within range and a working bus
\* make the call succeed, write the override and set actuator->position to it.
C15_OverrideBeforeValidation ==
    (Done("set_position") /\ sysfs.enable_fixed /\ InRange(sysfs.fixed_position)
        /\ NoFailure(bus)) =>
        /\ ret = 0
        /\ bus = <<W16(3, sysfs.fixed_position \div 256, sysfs.fixed_position % 256, 0)>>
        /\ position = sysfs.fixed_position


\* C16: for every v in [0, FP5529_POS_MAX_SIZE], without the fixed override
\* and on a working bus, the bytes set_position(v) puts into the position
\* registers decode as ((high & 0x03) << 8) | low to v, and
\* actuator->position is v.
C16_RoundTrip ==
    (Done("set_position") /\ ~sysfs.enable_fixed /\ InRange(arg) /\ NoFailure(bus)) =>
        /\ Len(bus) = 1
        /\ bus[1][1] = "w16" /\ bus[1][2] = 3
        /\ landing_position(bus[1][3], bus[1][4]) = arg
        /\ position = arg

C16_Witness ==
    /\ Done("set_position") /\ ~sysfs.enable_fixed /\ NoFailure(bus)
    /\ arg = 896
    /\ bus = <<W16(3, 3, 128, 0)>>
    /\ position = 896


\* C17: in every state reachable from probe (position 0) by init,
\* set_position, get_status and soft_landing calls, with any override and
\* any init list, actuator->position lies in [0, FP5529_POS_MAX_SIZE].
C17_PositionInRange == InRange(position)


\* A call the host made through core_ops has returned.
HostDone == pc = "done" /\ op \in HostOps

\* The value the host receives for it.
HostReturn == host_return(op, ret)

\* A read or write of the call failed on the bus.
BusFailed == \E k \in 1..Len(bus) : IsTransfer(bus[k]) /\ Result(bus[k]) < 0

\* The error the bus adapter returned.
BusError == Result(bus[Len(bus)])

\* C18 as stated: a bus error raised during get-status, set-position,
\* soft-landing or init reaches the host with the value the bus adapter
\* returned.
C18_BusErrorUnchanged ==
    (HostDone /\ BusFailed) => HostReturn = BusError

\* C18 amended: a bus error raised during init reaches the host with the
\* value the bus adapter returned; raised during get-status, set-position or
\* soft-landing it reaches the host as -EINVAL, whatever that value was.
C18_BusErrorAtHost ==
    (HostDone /\ BusFailed) =>
        /\ EndsAtFailure(bus)
        /\ ret = BusError
        /\ HostReturn = (IF op = "init" THEN BusError ELSE -22)

C18_Witness ==
    /\ HostDone /\ op = "set_position"
    /\ BusFailed /\ BusError = -5
    /\ HostReturn = -22


\* The soft landing ran to its final read-back and found the lens away from 0.
LandingFailure == NoFailure(bus) /\ LandingComplete /\ ReadBack # 0

\* C19: through the SoftLanding control a landing that does not end at 0 is
\* returned as HW_SOFTLANDING_FAIL, as soft_landing returned it, and a bus
\* error in the sequence as -EINVAL; the two differ and neither is 0.
C19_LandingResults ==
    Done("soft_landing") =>
        /\ LandingFailure => (HostReturn = HW_SOFTLANDING_FAIL /\ HostReturn = ret)
        /\ BusFailed => HostReturn = -22
        /\ (LandingFailure \/ BusFailed) => HostReturn # 0
        /\ HW_SOFTLANDING_FAIL # -22

C19_Witness ==
    /\ Done("soft_landing")
    /\ LandingFailure
    /\ ReadBack = 513
    /\ HostReturn = HW_SOFTLANDING_FAIL


\* C20: get_status does a single read of the status register (0x05) and no
\* write, and reports NO_BUSY exactly when bits 0 and 1 of the byte read are
\* both zero and BUSY otherwise: the status is a function of the byte alone,
\* so two calls on an unchanged register report the same.
C20_StatusFromLowBits ==
    (Done("get_status") /\ last.read = "ok") =>
        /\ bus = <<R8(5, 0)>>
        /\ ret = 0
        /\ info = (IF last.val % 2 = 0 /\ (last.val \div 2) % 2 = 0
                   THEN ACTUATOR_STATUS_NO_BUSY ELSE ACTUATOR_STATUS_BUSY)

C20_Witness ==
    /\ Done("get_status") /\ last.read = "ok"
    /\ last.val = 254
    /\ info = ACTUATOR_STATUS_BUSY


\* The step ends a call that may store a position: a set_position that
\* returns success, an init whose init_position ran to completion, or a soft
\* landing that returns the soft-landing failure.
MayModifyPosition ==
    /\ pc # "done" /\ pc' = "done"
    /\ \/ op' = "set_position" /\ ret' = 0 /\ NoFailure(bus')
       \/ op' = "init" /\ ret' = 0 /\ NoFailure(bus') /\ pc \in {"init_list", "init_default"}
       \/ op' = "soft_landing" /\ ret' = HW_SOFTLANDING_FAIL /\ NoFailure(bus')

\* C21: actuator->position is modified only by a set_position that returns
\* success, an init_position that runs to completion, or a soft landing that
\* returns the failure code; every step of every other call (one that
\* returns an error, a bus failure part-way through an init list included,
\* get_status, wait_busy, a soft landing that succeeds) leaves it unchanged.
C21_PositionFrame ==
    [][position' # position => MayModifyPosition]_vars

\* An init list whose second write failed after the first was sent: the
\* position is still the one an earlier set_position stored.
C21_Witness ==
    /\ Done("init")
    /\ sysfs.init_step = 2
    /\ Len(SelectSeq(bus, LAMBDA e : e[1] = "w16")) = 2
    /\ Result(bus[Len(bus)]) = -5
    /\ ret = -5
    /\ position = 528

====
